---- MODULE Spec2Model ----
(***************************************************************************)
(* Admin panel for an automotive spare-parts shop: the Support chat screen *)
(* (src/src/pages/admin/Support.tsx) and the Products screen               *)
(* (src/unnamed/part_001), as state machines over the React component      *)
(* state, with one action per event handler.                               *)
(*                                                                         *)
(* Text that the code inspects character by character (MIME types, the     *)
(* message draft, product fields, search terms) is a sequence of           *)
(* one-character strings; text that is only concatenated and shown (file   *)
(* names, notification texts, size labels, ids) is a TLA+ string.          *)
(***************************************************************************)
EXTENDS Integers, Sequences, FiniteSets, TLC

VARIABLES
    \* ---- Support component state (Support.tsx:50-55)
    selectedChat,    \* useState(chats[0]): the selected chat record
    message,         \* useState(''): the draft text
    searchTerm,      \* useState(''): the conversation search box
    attachments,     \* useState<Attachment[]>([]): the draft attachments
    localMessages,   \* useState<MessageWithAttachment[]>([])
    showChatList,    \* useState(true): list view (TRUE) or detail view
    \* ---- Products component state (part_001:45-48)
    products,            \* the provider's product collection
    productSearchTerm,   \* useState(''): searchTerm of Products
    categoryFilter,      \* useState('all')
    imageUrls,           \* useState<string[]>([''])
    \* ---- environment
    now,             \* Date.now(), in milliseconds since the first event
    objectUrls,      \* number of object URLs handed out by URL.createObjectURL
    effects,         \* what the last handler emitted, in order: notifications,
                     \* confirmation prompts and calls into the provider
    lastOp,          \* the last handler that ran, with its arguments
    \* ---- direct application of the pure helpers
    pureIn, pureOut

supportVars == <<selectedChat, message, searchTerm, attachments, localMessages, showChatList>>
productVars == <<products, productSearchTerm, categoryFilter, imageUrls>>
envVars == <<now, objectUrls, effects, lastOp>>
pureVars == <<pureIn, pureOut>>
vars == <<supportVars, productVars, envVars, pureVars>>

(***************************************************************************)
(* Bounds of the model.                                                    *)
(***************************************************************************)
MaxSelect == 2        \* files in one selection of the file picker
MaxObjectUrls == 2    \* object URLs created in one run
MaxMessages == 1      \* local messages sent in one run
MaxClock == 1         \* milliseconds the clock advances in one run
Spread == 4           \* byte counts sampled on each side of a size boundary
MaxSends == 2         \* local messages sent in one session that also navigates

(***************************************************************************)
(* ECMAScript string primitives, on sequences of characters.               *)
(***************************************************************************)
\* String.prototype.startsWith(p): p matches s at position 0.
RECURSIVE startsWith(_, _)
startsWith(s, p) ==
    IF p = <<>> THEN TRUE
    ELSE IF s = <<>> THEN FALSE
    ELSE Head(s) = Head(p) /\ startsWith(Tail(s), Tail(p))

\* String.prototype.includes(p): p matches s at some position.
RECURSIVE includes(_, _)
includes(s, p) ==
    IF startsWith(s, p) THEN TRUE
    ELSE IF s = <<>> THEN FALSE
    ELSE includes(Tail(s), p)

\* WhiteSpace and LineTerminator characters that String.prototype.trim strips.
WhiteSpace == {" ", "\t", "\n", "\r"}

RECURSIVE trimStart(_)
trimStart(s) ==
    IF s # <<>> /\ Head(s) \in WhiteSpace THEN trimStart(Tail(s)) ELSE s

RECURSIVE trimEnd(_)
trimEnd(s) ==
    IF s # <<>> /\ s[Len(s)] \in WhiteSpace THEN trimEnd(SubSeq(s, 1, Len(s) - 1)) ELSE s

\* String.prototype.trim
trim(s) == trimEnd(trimStart(s))

\* JavaScript truthiness of a string: the empty string is falsy.
Truthy(s) == s # <<>>

(***************************************************************************)
(* Support screen: classification and size label of a file.                *)
(***************************************************************************)
\* getFileType with the test for documents made first.
getFileTypeDocumentFirst(type) ==
    IF includes(type, <<"p", "d", "f">>) \/ includes(type, <<"d", "o", "c", "u", "m", "e", "n", "t">>) \/ includes(type, <<"t", "e", "x", "t">>)
         THEN "document"
    ELSE IF startsWith(type, <<"i", "m", "a", "g", "e", "/">>) THEN "image"
    ELSE IF startsWith(type, <<"a", "u", "d", "i", "o", "/">>) THEN "audio"
    ELSE "other"

\* Support.tsx:67-72
getFileType(type) ==
    IF startsWith(type, <<"i", "m", "a", "g", "e", "/">>) THEN "image"
    ELSE IF startsWith(type, <<"a", "u", "d", "i", "o", "/">>) THEN "audio"
    ELSE IF includes(type, <<"p", "d", "f">>) \/ includes(type, <<"d", "o", "c", "u", "m", "e", "n", "t">>) \/ includes(type, <<"t", "e", "x", "t">>)
         THEN "document"
    ELSE "other"

\* toFixed1 cutting the quotient off after the first decimal.
toFixed1Truncating(num, den) ==
    LET n == (10 * num) \div den
    IN  ToString(n \div 10) \o "." \o ToString(n % 10)

\* Number.prototype.toFixed(1) of num/den for a power of two den: the quotient
\* is exact in binary floating point, and toFixed picks the integer n with
\* n/10 nearest to it, the larger n on a tie.
toFixed1(num, den) ==
    LET n == (20 * num + den) \div (2 * den)
    IN  ToString(n \div 10) \o "." \o ToString(n % 10)

\* Support.tsx:74-78
formatFileSize(bytes) ==
    IF bytes < 1024 THEN ToString(bytes) \o " B"
    ELSE IF bytes < 1024 * 1024 THEN toFixed1(bytes, 1024) \o " KB"
    ELSE toFixed1(bytes, 1024 * 1024) \o " MB"

\* tooLarge comparing whole kibibytes.
tooLargeWholeKiB(file) == file.size \div 1024 > 10 * 1024

\* tooLarge rejecting a file of exactly the limit.
tooLargeInclusive(file) == file.size >= 10 * 1024 * 1024

\* Support.tsx:86: the size test of handleFileSelect
tooLarge(file) == file.size > 10 * 1024 * 1024

(***************************************************************************)
(* The environment of the Support screen: the clock, the file picker, the  *)
(* provider's chats.                                                       *)
(***************************************************************************)
\* Three decimal digits, zero padded.
pad3(n) ==
    (IF n < 10 THEN "00" ELSE IF n < 100 THEN "0" ELSE "") \o ToString(n)

\* Date.now().toString(): the page was loaded at 2025-11-05T00:00:00.000Z
\* (1762300800000 ms) and `now` counts the milliseconds since.
dateNowString(t) == "1762300800" \o pad3(t)

\* new Date().toISOString()
toISOString(t) == "2025-11-05T00:00:00." \o pad3(t) \o "Z"

\* Math.random().toString(36).substr(2, 9): some base-36 digits
RandomSuffixes == {"k3v9x0q2a", "7f1zzp04c"}

\* The value of an optional field that was never set.
undefined == <<>>
\* The value of an optional field that was set to x.
Some(x) == <<x>>

\* The files the picker can deliver: {name, size, type} of the File objects;
\* one of exactly 10 MiB and one a byte larger.
Files == {
    [name |-> "manual.pdf", size |-> 10485760, type |-> <<"a", "p", "p", "l", "i", "c", "a", "t", "i", "o", "n", "/", "p", "d", "f">>],
    [name |-> "song.mp3",   size |-> 10485761, type |-> <<"a", "u", "d", "i", "o", "/", "m", "p", "e", "g">>] }

\* event.target.files: null, or a FileList of up to MaxSelect files
FileLists == UNION { [1..n -> Files] : n \in 0..MaxSelect }

\* The chats of the provider (useAdmin().chats).
Chats == <<
    [id |-> "1", customerName |-> <<"R", "a", "v", "i", " ", "K">>, status |-> "open",
     messages |-> << [id |-> "1", sender |-> "customer", text |-> <<"h", "i">>,
                      timestamp |-> "2025-11-04T10:00:00.000Z"] >>],
    [id |-> "2", customerName |-> <<"A", "n", "u">>, status |-> "closed",
     messages |-> << [id |-> "1", sender |-> "customer", text |-> <<"o", "k">>,
                      timestamp |-> "2025-11-04T11:00:00.000Z"],
                     [id |-> "2", sender |-> "admin", text |-> <<"y", "e", "s">>,
                      timestamp |-> "2025-11-04T11:05:00.000Z"] >>] >>

\* What the admin can type into the message box.
Drafts == { <<>>, <<" ", "\t">>, <<" ", "a", " ">> }

\* What the admin can type into the conversation search box.
ChatSearches == { <<>>, <<"A", "N">> }

UpperCase == <<"A", "B", "C", "D", "E", "F", "G", "H", "I", "J", "K", "L", "M", "N", "O", "P", "Q", "R", "S", "T", "U", "V", "W", "X", "Y", "Z">>
LowerCase == <<"a", "b", "c", "d", "e", "f", "g", "h", "i", "j", "k", "l", "m", "n", "o", "p", "q", "r", "s", "t", "u", "v", "w", "x", "y", "z">>

\* String.prototype.toLowerCase, on the characters the model uses.
toLowerCase(s) ==
    [i \in 1..Len(s) |->
        IF \E k \in 1..26 : UpperCase[k] = s[i]
        THEN LowerCase[CHOOSE k \in 1..26 : UpperCase[k] = s[i]]
        ELSE s[i]]

\* Support.tsx:58-60
filteredChats ==
    SelectSeq(Chats, LAMBDA chat :
        includes(toLowerCase(chat.customerName), toLowerCase(searchTerm)))

(***************************************************************************)
(* Notifications and other observable effects of a handler.                *)
(***************************************************************************)
toastError(text) == [kind |-> "toast.error", arg |-> text]
toastSuccess(text) == [kind |-> "toast.success", arg |-> text]

(***************************************************************************)
(* Support screen: the handlers.                                           *)
(***************************************************************************)
\* Support.tsx:85-99: the forEach over the selected files. rnd[i] is what
\* Math.random yields for the i-th file, url the number of object URLs
\* created so far. Yields the new attachments and the notifications.
RECURSIVE forEachFile(_, _, _, _)
forEachFile(files, rnd, t, url) ==
    IF files = <<>> THEN [newAttachments |-> <<>>, toasts |-> <<>>]
    ELSE
        LET file == Head(files)
        IN  IF tooLarge(file)
            THEN LET rest == forEachFile(Tail(files), Tail(rnd), t, url)
                 IN  [newAttachments |-> rest.newAttachments,
                      toasts |-> <<toastError(file.name \o " is too large. Max file size is 10MB.")>>
                                 \o rest.toasts]
            ELSE LET rest == forEachFile(Tail(files), Tail(rnd), t, url + 1)
                     attachment ==
                         [id |-> dateNowString(t) \o Head(rnd),
                          name |-> file.name,
                          type |-> getFileType(file.type),
                          url |-> "blob:" \o ToString(url + 1),
                          size |-> formatFileSize(file.size)]
                 IN  [newAttachments |-> <<attachment>> \o rest.newAttachments,
                      toasts |-> rest.toasts]

\* Support.tsx:80-107, with files = null (line 82)
handleFileSelectNull ==
    /\ effects' = <<>>
    /\ lastOp' = [op |-> "handleFileSelect", args |-> <<undefined>>]
    /\ UNCHANGED <<supportVars, productVars, pureVars, now, objectUrls>>

\* Support.tsx:80-107, with a FileList
handleFileSelect(files, rnd) ==
    LET r == forEachFile(files, rnd, now, objectUrls)
        n == Len(r.newAttachments)
    IN  /\ objectUrls + n <= MaxObjectUrls
        /\ attachments' = attachments \o r.newAttachments
        /\ objectUrls' = objectUrls + n
        /\ effects' = r.toasts \o <<toastSuccess(ToString(n) \o " file(s) attached")>>
        /\ lastOp' = [op |-> "handleFileSelect", args |-> <<Some(files)>>]
        /\ UNCHANGED <<selectedChat, message, searchTerm, localMessages, showChatList,
                       productVars, pureVars, now>>

\* Support.tsx:95: the object URLs that were created and not revoked. No
\* handler calls URL.revokeObjectURL, so these are all that were created.
liveObjectUrls == {"blob:" \o ToString(k) : k \in 1..objectUrls}

\* removeAttachment that also takes the attachment out of the messages
\* already sent.
removeAttachmentEverywhere(id) ==
    /\ attachments' = SelectSeq(attachments, LAMBDA a : a.id # id)
    /\ localMessages' =
           [i \in 1..Len(localMessages) |->
               IF localMessages[i].attachments = undefined THEN localMessages[i]
               ELSE [localMessages[i] EXCEPT
                        !.attachments = Some(SelectSeq(@[1], LAMBDA a : a.id # id))]]
    /\ effects' = <<>>
    /\ lastOp' = [op |-> "removeAttachment", args |-> <<id>>]
    /\ UNCHANGED <<selectedChat, message, searchTerm, showChatList,
                   productVars, pureVars, now, objectUrls>>

\* removeAttachment that takes out the first attachment of that id only.
removeAttachmentFirstOnly(id) ==
    /\ attachments' =
           LET hits == {i \in 1..Len(attachments) : attachments[i].id = id}
           IN  IF hits = {} THEN attachments
               ELSE LET first == CHOOSE i \in hits : \A j \in hits : i <= j
                    IN  SubSeq(attachments, 1, first - 1)
                        \o SubSeq(attachments, first + 1, Len(attachments))
    /\ effects' = <<>>
    /\ lastOp' = [op |-> "removeAttachment", args |-> <<id>>]
    /\ UNCHANGED <<selectedChat, message, searchTerm, localMessages, showChatList,
                   productVars, pureVars, now, objectUrls>>

\* Support.tsx:109-111
removeAttachment(id) ==
    /\ attachments' = SelectSeq(attachments, LAMBDA a : a.id # id)
    /\ effects' = <<>>
    /\ lastOp' = [op |-> "removeAttachment", args |-> <<id>>]
    /\ UNCHANGED <<selectedChat, message, searchTerm, localMessages, showChatList,
                   productVars, pureVars, now, objectUrls>>

\* nothingToSend looking at the text alone.
nothingToSendTextOnly == ~Truthy(trim(message))

\* nothingToSend without the trim.
nothingToSendUntrimmed == ~Truthy(message) /\ Len(attachments) = 0

\* Support.tsx:114: the early return of handleSendMessage
nothingToSend == ~Truthy(trim(message)) /\ Len(attachments) = 0

\* Support.tsx:480: the `disabled` attribute of the send button
sendDisabled == ~Truthy(trim(message)) /\ Len(attachments) = 0

\* newMessage that leaves the attachments out.
newMessageNoAttachments ==
    [id |-> dateNowString(now),
     sender |-> "admin",
     text |-> message,
     timestamp |-> toISOString(now),
     attachments |-> undefined]

\* Support.tsx:116-122
newMessage ==
    [id |-> dateNowString(now),
     sender |-> "admin",
     text |-> message,
     timestamp |-> toISOString(now),
     attachments |-> IF Len(attachments) > 0 THEN Some(attachments) ELSE undefined]

\* Support.tsx:113-128, while fewer than `cap` messages were sent
handleSendMessageUpTo(cap) ==
    /\ IF nothingToSend
       THEN /\ effects' = <<>>
            /\ UNCHANGED <<message, attachments, localMessages>>
       ELSE /\ Len(localMessages) < cap
            /\ localMessages' = Append(localMessages, newMessage)
            /\ message' = <<>>
            /\ attachments' = <<>>
            /\ effects' = <<toastSuccess("Message sent")>>
    /\ lastOp' = [op |-> "handleSendMessage", args |-> <<>>]
    /\ UNCHANGED <<selectedChat, searchTerm, showChatList, productVars, pureVars,
                   now, objectUrls>>

\* Support.tsx:113-128
handleSendMessage == handleSendMessageUpTo(MaxMessages)

\* allMessages that shows the local messages in every chat.
allMessagesUnfiltered ==
    [i \in 1..Len(selectedChat.messages) |->
        [id |-> selectedChat.messages[i].id,
         sender |-> selectedChat.messages[i].sender,
         text |-> selectedChat.messages[i].text,
         timestamp |-> selectedChat.messages[i].timestamp,
         attachments |-> undefined]]
    \o localMessages

\* Support.tsx:143-146
allMessages ==
    [i \in 1..Len(selectedChat.messages) |->
        [id |-> selectedChat.messages[i].id,
         sender |-> selectedChat.messages[i].sender,
         text |-> selectedChat.messages[i].text,
         timestamp |-> selectedChat.messages[i].timestamp,
         attachments |-> undefined]]
    \o SelectSeq(localMessages, LAMBDA m : selectedChat.id = Chats[1].id)

\* handleSelectChat that starts the chat with an empty draft.
handleSelectChatClearsDraft(chat) ==
    /\ selectedChat' = chat
    /\ showChatList' = FALSE
    /\ message' = <<>>
    /\ attachments' = <<>>
    /\ effects' = <<>>
    /\ lastOp' = [op |-> "handleSelectChat", args |-> <<chat.id>>]
    /\ UNCHANGED <<searchTerm, localMessages, productVars, pureVars, now, objectUrls>>

\* handleSelectChat that stays in the list view.
handleSelectChatOnly(chat) ==
    /\ selectedChat' = chat
    /\ effects' = <<>>
    /\ lastOp' = [op |-> "handleSelectChat", args |-> <<chat.id>>]
    /\ UNCHANGED <<message, searchTerm, attachments, localMessages, showChatList,
                   productVars, pureVars, now, objectUrls>>

\* Support.tsx:148-151
handleSelectChat(chat) ==
    /\ selectedChat' = chat
    /\ showChatList' = FALSE
    /\ effects' = <<>>
    /\ lastOp' = [op |-> "handleSelectChat", args |-> <<chat.id>>]
    /\ UNCHANGED <<message, searchTerm, attachments, localMessages,
                   productVars, pureVars, now, objectUrls>>

\* Support.tsx:153-155
handleBackToList ==
    /\ showChatList' = TRUE
    /\ effects' = <<>>
    /\ lastOp' = [op |-> "handleBackToList", args |-> <<>>]
    /\ UNCHANGED <<selectedChat, message, searchTerm, attachments, localMessages,
                   productVars, pureVars, now, objectUrls>>

\* Support.tsx:467: onChange of the message box
setMessage(text) ==
    /\ message' = text
    /\ effects' = <<>>
    /\ lastOp' = [op |-> "setMessage", args |-> <<>>]
    /\ UNCHANGED <<selectedChat, searchTerm, attachments, localMessages, showChatList,
                   productVars, pureVars, now, objectUrls>>

\* Support.tsx:194: onChange of the conversation search box
setSearchTerm(text) ==
    /\ searchTerm' = text
    /\ effects' = <<>>
    /\ lastOp' = [op |-> "setSearchTerm", args |-> <<>>]
    /\ UNCHANGED <<selectedChat, message, attachments, localMessages, showChatList,
                   productVars, pureVars, now, objectUrls>>

\* On this step the handler `op` ran (Tick is the one step that is no handler,
\* and the only one that moves the clock).
ran(op) == lastOp'.op = op /\ now' = now

\* Time passes between two events.
Tick ==
    /\ now < MaxClock
    /\ now' = now + 1
    /\ UNCHANGED <<supportVars, productVars, pureVars, objectUrls, effects, lastOp>>

(***************************************************************************)
(* Products screen.                                                        *)
(***************************************************************************)
\* The products of the provider (useAdmin().products) when the screen mounts.
InitialProducts == <<
    [id |-> "1", name |-> <<"B", "r", "a", "k", "e", " ", "P", "a", "d">>, partNumber |-> <<"B", "P", "-", "1", "0", "0">>,
     category |-> "Brakes", model |-> <<"i", "2", "0">>, stock |-> 25, status |-> "In Stock"],
    [id |-> "2", name |-> <<"O", "i", "l", " ", "F", "i", "l", "t", "e", "r">>, partNumber |-> <<"O", "F", "-", "2", "0", "0">>,
     category |-> "Engine", model |-> <<"C", "r", "e", "t", "a">>, stock |-> 4, status |-> "Low Stock"],
    [id |-> "3", name |-> <<"D", "i", "s", "c">>, partNumber |-> <<"B", "R", "K", "-", "3", "0", "0">>,
     category |-> "Brakes", model |-> <<"V", "e", "r", "n", "a">>, stock |-> 0, status |-> "Out of Stock"],
    [id |-> "4", name |-> <<"W", "i", "p", "e", "r">>, partNumber |-> <<"W", "P", "-", "7">>,
     category |-> "Body", model |-> <<"B", "r", "a", "k", "e", "-", "a", "s", "s", "i", "s", "t", " ", "i", "2", "0">>, stock |-> 12, status |-> "In Stock"] >>

\* Product ids a consumer of the provider can name: the initial ones and one
\* that no product has.
ProductIds == {InitialProducts[i].id : i \in 1..Len(InitialProducts)} \cup {"404"}

\* What the admin can type into the product search box.
ProductSearches == { <<>>, <<"b", "r", "a", "k", "e">>, <<"B", "R">>, <<"i", "2", "0">>, <<"z", "z">> }

\* matchesSearch that compares without lower-casing.
matchesSearchCaseSensitive(product) ==
    \/ includes(product.name, productSearchTerm)
    \/ includes(product.partNumber, productSearchTerm)
    \/ includes(product.model, productSearchTerm)

\* part_001:59-62
matchesSearch(product) ==
    \/ includes(toLowerCase(product.name), toLowerCase(productSearchTerm))
    \/ includes(toLowerCase(product.partNumber), toLowerCase(productSearchTerm))
    \/ includes(toLowerCase(product.model), toLowerCase(productSearchTerm))

\* part_001:64
matchesCategory(product) ==
    categoryFilter = "all" \/ product.category = categoryFilter

\* part_001:58-67
filteredProducts ==
    SelectSeq(products, LAMBDA product : matchesSearch(product) /\ matchesCategory(product))

\* part_001:69
categories == {products[i].category : i \in 1..Len(products)}

\* part_001:71-82: the badge of a status: its variant, its class names and
\* the text it shows.
getStatusBadge(status) ==
    CASE status = "In Stock" ->
             [variant |-> "default", className |-> "bg-success text-success-foreground", text |-> "In Stock"]
      [] status = "Low Stock" ->
             [variant |-> "default", className |-> "bg-warning text-warning-foreground", text |-> "Low Stock"]
      [] status = "Out of Stock" ->
             [variant |-> "destructive", className |-> "", text |-> "Out of Stock"]
      [] OTHER ->
             [variant |-> "secondary", className |-> "", text |-> status]

\* The status cells if the badge were chosen by the stock quantity.
statusBadgesFromStock ==
    [i \in 1..Len(filteredProducts) |->
        getStatusBadge(IF filteredProducts[i].stock = 0 THEN "Out of Stock"
                       ELSE IF filteredProducts[i].stock < 10 THEN "Low Stock"
                       ELSE "In Stock")]

\* part_001:338: the status cell of each row of the table
statusBadges ==
    [i \in 1..Len(filteredProducts) |-> getStatusBadge(filteredProducts[i].status)]

\* The status strings a product of the provider may carry: the three the
\* screen knows, and others.
StatusStrings == {"In Stock", "Low Stock", "Out of Stock", "in stock", "Discontinued", ""}

\* The stock quantities a product of the provider may carry.
Stocks == {0, 3, 25}

\* The collections of two products the screen may mount with: the status and
\* the stock of each are independent of each other.
ProductCollections ==
    { << [InitialProducts[1] EXCEPT !.status = s1, !.stock = k],
         [InitialProducts[2] EXCEPT !.status = s2] >> :
      s1 \in StatusStrings, s2 \in {"Low Stock", "Discontinued"}, k \in Stocks }

\* The provider's deleteProduct(id): the collection without the records of
\* that id.
deleteProduct(collection, id) ==
    SelectSeq(collection, LAMBDA p : p.id # id)

\* handleDelete that does not wait for the answer to window.confirm.
handleDeleteUnconfirmed(id, name, ok) ==
    /\ products' = deleteProduct(products, id)
    /\ effects' = << [kind |-> "window.confirm", arg |-> name],
                     [kind |-> "deleteProduct", arg |-> id],
                     toastSuccess("Product deleted successfully") >>
    /\ lastOp' = [op |-> "handleDelete", args |-> <<id, name, ok>>]
    /\ UNCHANGED <<supportVars, productSearchTerm, categoryFilter, imageUrls,
                   pureVars, now, objectUrls>>

\* handleDelete that deletes the first row shown instead of the row clicked.
handleDeleteFirstRow(id, name, ok) ==
    /\ IF ok
       THEN /\ products' = deleteProduct(products, filteredProducts[1].id)
            /\ effects' = << [kind |-> "window.confirm", arg |-> name],
                             [kind |-> "deleteProduct", arg |-> filteredProducts[1].id],
                             toastSuccess("Product deleted successfully") >>
       ELSE /\ products' = products
            /\ effects' = << [kind |-> "window.confirm", arg |-> name] >>
    /\ lastOp' = [op |-> "handleDelete", args |-> <<id, name, ok>>]
    /\ UNCHANGED <<supportVars, productSearchTerm, categoryFilter, imageUrls,
                   pureVars, now, objectUrls>>

\* part_001:84-89: handleDelete(id, name); ok is the answer to window.confirm
handleDelete(id, name, ok) ==
    /\ IF ok
       THEN /\ products' = deleteProduct(products, id)
            /\ effects' = << [kind |-> "window.confirm", arg |-> name],
                             [kind |-> "deleteProduct", arg |-> id],
                             toastSuccess("Product deleted successfully") >>
       ELSE /\ products' = products
            /\ effects' = << [kind |-> "window.confirm", arg |-> name] >>
    /\ lastOp' = [op |-> "handleDelete", args |-> <<id, name, ok>>]
    /\ UNCHANGED <<supportVars, productSearchTerm, categoryFilter, imageUrls,
                   pureVars, now, objectUrls>>

\* Another consumer of the provider calls deleteProduct(id).
providerDeleteProduct(id) ==
    /\ products' = deleteProduct(products, id)
    /\ effects' = << [kind |-> "deleteProduct", arg |-> id] >>
    /\ lastOp' = [op |-> "deleteProduct", args |-> <<id>>]
    /\ UNCHANGED <<supportVars, productSearchTerm, categoryFilter, imageUrls,
                   pureVars, now, objectUrls>>

\* part_001:270: onChange of the product search box
setProductSearchTerm(text) ==
    /\ productSearchTerm' = text
    /\ effects' = <<>>
    /\ lastOp' = [op |-> "setSearchTerm", args |-> <<>>]
    /\ UNCHANGED <<supportVars, products, categoryFilter, imageUrls,
                   pureVars, now, objectUrls>>

\* part_001:274: onValueChange of the category select
setCategoryFilter(cat) ==
    /\ categoryFilter' = cat
    /\ effects' = <<>>
    /\ lastOp' = [op |-> "setCategoryFilter", args |-> <<>>]
    /\ UNCHANGED <<supportVars, products, productSearchTerm, imageUrls,
                   pureVars, now, objectUrls>>

(***************************************************************************)
(* Products screen: the image URLs of the add-product dialog.  The         *)
(* handlers are taken as callable in every state: the dialog disables the  *)
(* add button at ten entries and hides the remove button at one, and the   *)
(* handlers test the length again.  Positions count from 1 here and from 0 *)
(* in the code.                                                            *)
(***************************************************************************)
\* part_001:92 and 151: the most image URLs the dialog takes
MaxImageUrls == 10

\* What the admin can type into an image URL input.
UrlInputs == { <<>>, <<" ">>, <<"u">> }

\* addImageUrl that still adds at ten entries.
addImageUrlInclusive ==
    /\ IF Len(imageUrls) <= MaxImageUrls
       THEN imageUrls' = Append(imageUrls, <<>>)
       ELSE imageUrls' = imageUrls
    /\ effects' = <<>>
    /\ lastOp' = [op |-> "addImageUrl", args |-> <<>>]
    /\ UNCHANGED <<supportVars, products, productSearchTerm, categoryFilter,
                   pureVars, now, objectUrls>>

\* part_001:91-95
addImageUrl ==
    /\ IF Len(imageUrls) < MaxImageUrls
       THEN imageUrls' = Append(imageUrls, <<>>)
       ELSE imageUrls' = imageUrls
    /\ effects' = <<>>
    /\ lastOp' = [op |-> "addImageUrl", args |-> <<>>]
    /\ UNCHANGED <<supportVars, products, productSearchTerm, categoryFilter,
                   pureVars, now, objectUrls>>

\* part_001:97-101
removeImageUrl(index) ==
    /\ IF Len(imageUrls) > 1
       THEN imageUrls' = [i \in 1..(Len(imageUrls) - 1) |->
                             IF i < index THEN imageUrls[i] ELSE imageUrls[i + 1]]
       ELSE imageUrls' = imageUrls
    /\ effects' = <<>>
    /\ lastOp' = [op |-> "removeImageUrl", args |-> <<>>]
    /\ UNCHANGED <<supportVars, products, productSearchTerm, categoryFilter,
                   pureVars, now, objectUrls>>

\* part_001:103-107
updateImageUrl(index, value) ==
    /\ imageUrls' = [imageUrls EXCEPT ![index] = value]
    /\ effects' = <<>>
    /\ lastOp' = [op |-> "updateImageUrl", args |-> <<>>]
    /\ UNCHANGED <<supportVars, products, productSearchTerm, categoryFilter,
                   pureVars, now, objectUrls>>

\* validUrls without the trim.
validUrlsUntrimmed == SelectSeq(imageUrls, LAMBDA url : url # <<>>)

\* part_001:110
validUrls == SelectSeq(imageUrls, LAMBDA url : trim(url) # <<>>)

\* part_001:109-117
handleAddProduct ==
    /\ IF Len(validUrls) = 0
       THEN /\ effects' = <<toastError("Please add at least one product image")>>
            /\ imageUrls' = imageUrls
       ELSE /\ effects' = <<toastSuccess("Product added successfully")>>
            /\ imageUrls' = << <<>> >>
    /\ lastOp' = [op |-> "handleAddProduct", args |-> <<>>]
    /\ UNCHANGED <<supportVars, products, productSearchTerm, categoryFilter,
                   pureVars, now, objectUrls>>

(***************************************************************************)
(* Direct application of the pure helpers to sampled inputs.               *)
(***************************************************************************)
\* Byte counts around the boundaries of formatFileSize and around values
\* that lie halfway between two one-decimal labels.
SizeAnchors == {0, 1024, 1280, 5120, 1024 * 1024, 1310720, 10 * 1024 * 1024}

FileSizes ==
    {b \in UNION {(a - Spread)..(a + Spread) : a \in SizeAnchors} :
        b >= 0 /\ ~tooLarge([size |-> b])}

MimeTypes == {
    <<>>, <<"i", "m", "a", "g", "e", "/", "p", "n", "g">>, <<"i", "m", "a", "g", "e", "/", "s", "v", "g", "+", "x", "m", "l">>, <<"i", "m", "a", "g", "e", "/", "x", "-", "p", "d", "f">>, <<"i", "m", "a", "g", "e", "/", "t", "e", "x", "t">>,
    <<"a", "u", "d", "i", "o", "/", "m", "p", "e", "g">>, <<"a", "u", "d", "i", "o", "/", "x", "-", "d", "o", "c", "u", "m", "e", "n", "t">>, <<"a", "u", "d", "i", "o", "/", "p", "d", "f">>,
    <<"a", "p", "p", "l", "i", "c", "a", "t", "i", "o", "n", "/", "p", "d", "f">>, <<"t", "e", "x", "t", "/", "p", "l", "a", "i", "n">>, <<"t", "e", "x", "t", "/", "i", "m", "a", "g", "e", "/">>, <<"x", "-", "i", "m", "a", "g", "e", "/", "p", "n", "g">>,
    <<"a", "p", "p", "l", "i", "c", "a", "t", "i", "o", "n", "/", "v", "n", "d", ".", "o", "a", "s", "i", "s", ".", "o", "p", "e", "n", "d", "o", "c", "u", "m", "e", "n", "t", ".", "t", "e", "x", "t">>, <<"a", "p", "p", "l", "i", "c", "a", "t", "i", "o", "n", "/", "m", "s", "w", "o", "r", "d">>,
    <<"a", "p", "p", "l", "i", "c", "a", "t", "i", "o", "n", "/", "z", "i", "p">>, <<"v", "i", "d", "e", "o", "/", "m", "p", "4">>, <<"i", "m", "a", "g", "e">>, <<"a", "u", "d", "i", "o">>, <<"p", "d", " ", "f">> }

\* A call of a helper: the helper, and the size or the type of the file
PureInputs ==
    {[fn |-> "formatFileSize", bytes |-> b, type |-> <<>>] : b \in FileSizes}
    \cup {[fn |-> "getFileType", bytes |-> 0, type |-> t] : t \in MimeTypes}

applyFormatFileSize ==
    /\ pureIn.fn = "formatFileSize"
    /\ pureOut = "pending"
    /\ pureOut' = formatFileSize(pureIn.bytes)
    /\ UNCHANGED <<supportVars, productVars, envVars, pureIn>>

applyGetFileType ==
    /\ pureIn.fn = "getFileType"
    /\ pureOut = "pending"
    /\ pureOut' = getFileType(pureIn.type)
    /\ UNCHANGED <<supportVars, productVars, envVars, pureIn>>

(***************************************************************************)
(* Specifications.                                                         *)
(***************************************************************************)
InitSupport ==
    /\ selectedChat = Chats[1]
    /\ message = <<>>
    /\ searchTerm = <<>>
    /\ attachments = <<>>
    /\ localMessages = <<>>
    /\ showChatList = TRUE

InitProducts ==
    /\ products = InitialProducts
    /\ productSearchTerm = <<>>
    /\ categoryFilter = "all"
    /\ imageUrls = << <<>> >>

InitEnv ==
    /\ now = 0
    /\ objectUrls = 0
    /\ effects = <<>>
    /\ lastOp = [op |-> "mount", args |-> <<>>]

Init ==
    /\ InitSupport /\ InitProducts /\ InitEnv
    /\ pureIn = [fn |-> "none", bytes |-> 0, type |-> <<>>]
    /\ pureOut = "none"

\* The Support screen, composing and sending: the events of the message
\* input, the file picker, the attachment preview and the send control,
\* all within one millisecond of the clock (NextView lets time pass).
Next ==
    \/ handleFileSelectNull
    \/ \E files \in FileLists : \E rnd \in [1..Len(files) -> RandomSuffixes] :
           handleFileSelect(files, rnd)
    \/ \E i \in 1..Len(attachments) : removeAttachment(attachments[i].id)
    \/ handleSendMessage
    \/ \E text \in Drafts : setMessage(text)

Spec == Init /\ [][Next]_vars

\* The Support screen, navigating: the events of the chat list, the back
\* button, the search box and the message input, while time passes.
NextView ==
    \/ \E i \in 1..Len(filteredChats) : handleSelectChat(filteredChats[i])
    \/ handleBackToList
    \/ \E text \in ChatSearches : setSearchTerm(text)
    \/ \E text \in Drafts : setMessage(text)
    \/ handleSendMessage
    \/ Tick

SpecView == Init /\ [][NextView]_vars

\* What the admin types and picks in a session that also navigates: a blank
\* or a non-blank draft, and one file at a time.
SessionDrafts == { <<>>, <<" ", "a", " ">> }
SessionFileLists == {files \in FileLists : Len(files) = 1}

\* The Support screen, a whole session: attaching, removing, typing,
\* sending, selecting a chat, going back and searching, all within one
\* millisecond of the clock.
NextSession ==
    \/ \E files \in SessionFileLists :
           handleFileSelect(files, [i \in 1..Len(files) |-> "k3v9x0q2a"])
    \/ \E i \in 1..Len(attachments) : removeAttachment(attachments[i].id)
    \/ handleSendMessageUpTo(MaxSends)
    \/ \E text \in SessionDrafts : setMessage(text)
    \/ \E i \in 1..Len(filteredChats) : handleSelectChat(filteredChats[i])
    \/ handleBackToList
    \/ \E text \in ChatSearches : setSearchTerm(text)

SpecSession == Init /\ [][NextSession]_vars

\* The Support screen, a whole session while time passes.
NextTimed == NextSession \/ Tick

SpecTimed == Init /\ [][NextTimed]_vars

\* An attachment id that no attachment of the draft has.
StaleId == dateNowString(0) \o "zzzzzzzzz"

\* The Support screen, composing and sending, where removeAttachment is also
\* called with an id that is not in the draft.
NextRemove == Next \/ removeAttachment(StaleId)

SpecRemove == Init /\ [][NextRemove]_vars

\* The Products screen
NextProducts ==
    \/ \E i \in 1..Len(filteredProducts), ok \in BOOLEAN :
           handleDelete(filteredProducts[i].id, filteredProducts[i].name, ok)
    \/ \E id \in ProductIds : providerDeleteProduct(id)
    \/ \E text \in ProductSearches : setProductSearchTerm(text)
    \/ \E cat \in {"all"} \cup categories : setCategoryFilter(cat)

SpecProducts == Init /\ [][NextProducts]_vars

\* The Products screen over a collection of any statuses and stocks
InitBadges ==
    /\ InitSupport /\ InitEnv
    /\ products \in ProductCollections
    /\ productSearchTerm = <<>>
    /\ categoryFilter = "all"
    /\ imageUrls = << <<>> >>
    /\ pureIn = [fn |-> "none", bytes |-> 0, type |-> <<>>]
    /\ pureOut = "none"

SpecBadges == InitBadges /\ [][NextProducts]_vars

\* The add-product dialog of the Products screen
NextDialog ==
    \/ addImageUrl
    \/ \E index \in 1..Len(imageUrls) : removeImageUrl(index)
    \/ \E index \in 1..Len(imageUrls), value \in UrlInputs : updateImageUrl(index, value)
    \/ handleAddProduct

SpecDialog == Init /\ [][NextDialog]_vars

\* The pure helpers
InitPure ==
    /\ InitSupport /\ InitProducts /\ InitEnv
    /\ pureIn \in PureInputs
    /\ pureOut = "pending"

NextPure == applyFormatFileSize \/ applyGetFileType

SpecPure == InitPure /\ [][NextPure]_vars

(***************************************************************************)
(* Properties of the Support screen.                                       *)
(***************************************************************************)
\* 10 MiB in bytes
TenMiB == 10 * 1024 * 1024

\* The i-th smallest element of a finite set of integers.
Nth(S, i) == CHOOSE x \in S : Cardinality({y \in S : y <= x}) = i

\* The elements of seq at the positions of the set idx, in their order.
AtPositions(seq, idx) == [k \in 1..Cardinality(idx) |-> seq[Nth(idx, k)]]

\* The part of seq after its first n elements.
After(seq, n) == SubSeq(seq, n + 1, Len(seq))

\* The notifications among the effects of a handler.
Notifications(effs) ==
    SelectSeq(effs, LAMBDA e : e.kind \in {"toast.error", "toast.success"})

ErrorsOf(effs) == SelectSeq(effs, LAMBDA e : e.kind = "toast.error")

\* The step is handleFileSelect on a file list (not on null).
SelectedFiles == ran("handleFileSelect") /\ lastOp'.args[1] # undefined

\* C1: after handleFileSelect on any file list, as many attachments were added
\* as the list has files of at most 10 MiB, none of them carries the name of a
\* file larger than 10 MiB, the error notifications are one per file larger
\* than 10 MiB, in order, each naming its file; a list of only such files
\* leaves the attachment list unchanged.
C1_OversizedRejected ==
    [][SelectedFiles =>
        LET files == lastOp'.args[1][1]
            big == {i \in 1..Len(files) : files[i].size > TenMiB}
            bigFiles == AtPositions(files, big)
            added == After(attachments', Len(attachments))
            errors == ErrorsOf(effects')
        IN  /\ Len(attachments') = Len(attachments) + Len(files) - Cardinality(big)
            /\ \A i \in big : \A k \in 1..Len(added) : added[k].name # files[i].name
            /\ Len(errors) = Cardinality(big)
            /\ \A k \in 1..Len(errors) :
                   errors[k].arg = bigFiles[k].name \o " is too large. Max file size is 10MB."
            /\ (Cardinality(big) = Len(files) => attachments' = attachments)
      ]_vars

\* C1 witness: a selection of two files larger than 10 MiB was made while an
\* attachment was held; two errors were shown and the attachment is still
\* the only one.
C1_Witness ==
    /\ lastOp.op = "handleFileSelect"
    /\ lastOp.args[1] # undefined
    /\ Len(lastOp.args[1][1]) = 2
    /\ \A i \in 1..2 : lastOp.args[1][1][i].size > TenMiB
    /\ Len(ErrorsOf(effects)) = 2
    /\ Len(attachments) = 1

\* C2: after handleFileSelect on any file list, the attachment list is the
\* previous one followed by one attachment per file of at most 10 MiB, in the
\* order of the selection: the k-th added attachment has the name of the k-th
\* such file and the k-th object URL created by the call.
C2_ValidAccepted ==
    [][SelectedFiles =>
        LET files == lastOp'.args[1][1]
            ok == {i \in 1..Len(files) : files[i].size <= TenMiB}
            okFiles == AtPositions(files, ok)
            added == After(attachments', Len(attachments))
        IN  /\ SubSeq(attachments', 1, Len(attachments)) = attachments
            /\ Len(added) = Cardinality(ok)
            /\ \A k \in 1..Len(added) :
                   /\ added[k].name = okFiles[k].name
                   /\ added[k].url = "blob:" \o ToString(objectUrls + k)
      ]_vars

\* C2 witness: a file larger than 10 MiB and a file of exactly 10485760 bytes
\* were selected together while an attachment was held; the held attachment
\* is followed by the one for the file of 10485760 bytes.
C2_Witness ==
    /\ lastOp.op = "handleFileSelect"
    /\ lastOp.args[1] # undefined
    /\ \E i, j \in 1..Len(lastOp.args[1][1]) :
           /\ lastOp.args[1][1][i].size > TenMiB
           /\ lastOp.args[1][1][j].size = 10485760
    /\ Len(ErrorsOf(effects)) = 1
    /\ Len(attachments) = 2
    /\ attachments[2].size = "10.0 MB"

\* The text is empty or consists of white space only.
Blank(text) == \A i \in 1..Len(text) : text[i] \in WhiteSpace

\* C5 as stated: a send with non-blank text appends one message whose
\* attachments field is the attachment list at send time, whatever that
\* list is, and empties the text input and the attachment list.
C5_AsStated ==
    [][(ran("handleSendMessage") /\ ~Blank(message)) =>
        /\ Len(localMessages') = Len(localMessages) + 1
        /\ SubSeq(localMessages', 1, Len(localMessages)) = localMessages
        /\ localMessages'[Len(localMessages')].attachments = Some(attachments)
        /\ message' = <<>>
        /\ attachments' = <<>>
      ]_vars

\* C5, amended: a send with non-blank text appends one message whose
\* attachments field is the attachment list at send time if that list is not
\* empty and is undefined if it is empty, and empties the text input and the
\* attachment list.
C5_SendAppendsOne ==
    [][(ran("handleSendMessage") /\ ~Blank(message)) =>
        /\ Len(localMessages') = Len(localMessages) + 1
        /\ SubSeq(localMessages', 1, Len(localMessages)) = localMessages
        /\ LET sent == localMessages'[Len(localMessages')]
           IN  /\ attachments # <<>> => sent.attachments = Some(attachments)
               /\ attachments = <<>> => sent.attachments = undefined
               /\ sent.text = message
        /\ message' = <<>>
        /\ attachments' = <<>>
      ]_vars

\* C5 witness: a message with non-blank text and two attachments was sent;
\* the text input and the attachment list are empty.
C5_Witness ==
    /\ lastOp.op = "handleSendMessage"
    /\ Len(localMessages) = 1
    /\ ~Blank(localMessages[1].text)
    /\ localMessages[1].attachments # undefined
    /\ Len(localMessages[1].attachments[1]) = 2
    /\ message = <<>>
    /\ attachments = <<>>

\* C6: with blank text and no attachment the send control is disabled, and
\* handleSendMessage changes neither the local messages nor the text input
\* nor the attachment list and emits nothing; and on every run of
\* handleSendMessage the send control was disabled exactly if no message
\* was appended.
C6_EmptySendIsNoOp ==
    [][ /\ (Blank(message) /\ attachments = <<>>) => sendDisabled
        /\ (ran("handleSendMessage") /\ Blank(message) /\ attachments = <<>>) =>
               /\ UNCHANGED <<localMessages, message, attachments>>
               /\ effects' = <<>>
        /\ ran("handleSendMessage") =>
               (sendDisabled <=> localMessages' = localMessages)
      ]_vars

\* C6 witness: handleSendMessage ran on a draft of white space only with no
\* attachment; nothing was sent, nothing was shown, the draft is as it was.
C6_Witness ==
    /\ lastOp.op = "handleSendMessage"
    /\ message # <<>>
    /\ Blank(message)
    /\ attachments = <<>>
    /\ localMessages = <<>>
    /\ effects = <<>>
    /\ sendDisabled

\* C7: a send with blank text and at least one attachment appends one message
\* of sender "admin" that carries the attachments, empties the attachment
\* list and emits the notification "Message sent"; a send with non-blank text
\* appends one message too; every local message has sender "admin".
C7_SendNeedsTextOrAttachment ==
    [][ /\ (ran("handleSendMessage") /\ Blank(message) /\ attachments # <<>>) =>
               /\ Len(localMessages') = Len(localMessages) + 1
               /\ SubSeq(localMessages', 1, Len(localMessages)) = localMessages
               /\ localMessages'[Len(localMessages')].sender = "admin"
               /\ localMessages'[Len(localMessages')].attachments = Some(attachments)
               /\ attachments' = <<>>
               /\ Notifications(effects') = <<toastSuccess("Message sent")>>
        /\ (ran("handleSendMessage") /\ (~Blank(message) \/ attachments # <<>>)) =>
               Len(localMessages') = Len(localMessages) + 1
        /\ \A i \in 1..Len(localMessages') : localMessages'[i].sender = "admin"
      ]_vars

\* C7 witness: a message with blank text and one attachment was sent, and
\* "Message sent" was shown.
C7_Witness ==
    /\ lastOp.op = "handleSendMessage"
    /\ Len(localMessages) = 1
    /\ Blank(localMessages[1].text)
    /\ localMessages[1].attachments # undefined
    /\ Len(localMessages[1].attachments[1]) = 1
    /\ localMessages[1].sender = "admin"
    /\ attachments = <<>>
    /\ effects = <<toastSuccess("Message sent")>>

\* The selected chat is the first chat of the provider's list.
FirstChatSelected == selectedChat.id = Chats[1].id

\* shown begins with the messages of the chat, one for one.
BeginsWithCanonical(shown, chat) ==
    /\ Len(shown) >= Len(chat.messages)
    /\ \A i \in 1..Len(chat.messages) :
           /\ shown[i].id = chat.messages[i].id
           /\ shown[i].sender = chat.messages[i].sender
           /\ shown[i].text = chat.messages[i].text
           /\ shown[i].timestamp = chat.messages[i].timestamp

\* C13: the messages shown begin with the messages of the selected chat;
\* if the selected chat is the first chat they go on with the local
\* messages, all of them and in order, and if it is another chat they end
\* there and no local message is among them.
C13_LocalMessagesOnlyInFirstChat ==
    LET n == Len(selectedChat.messages)
    IN  /\ BeginsWithCanonical(allMessages, selectedChat)
        /\ FirstChatSelected => After(allMessages, n) = localMessages
        /\ ~FirstChatSelected =>
               /\ Len(allMessages) = n
               /\ \A i \in 1..Len(localMessages), k \in 1..Len(allMessages) :
                      allMessages[k] # localMessages[i]
        /\ localMessages # <<>> =>
               (After(allMessages, n) = localMessages <=> FirstChatSelected)

\* C13 witness: a message was sent while the second chat was selected; the
\* view shows the two messages of that chat and nothing else.
C13_Witness ==
    /\ lastOp.op = "handleSendMessage"
    /\ selectedChat.id = "2"
    /\ Len(localMessages) = 1
    /\ Len(allMessages) = 2

\* C13 witness of the other case: with a local message sent, the first chat
\* was selected; the view shows its message and then the local one.
C13_WitnessFirstChat ==
    /\ lastOp.op = "handleSelectChat"
    /\ selectedChat.id = "1"
    /\ Len(localMessages) = 1
    /\ Len(allMessages) = 2
    /\ allMessages[2] = localMessages[1]

\* C14: the screen starts in the list view; handleSelectChat selects the
\* chat clicked and switches to the detail view; handleBackToList switches
\* to the list view and keeps the selected chat; nothing else changes the
\* view.
C14_ViewFollowsSelectAndBack ==
    /\ showChatList = TRUE
    /\ [][ /\ ran("handleSelectChat") =>
                  /\ showChatList' = FALSE
                  /\ selectedChat'.id = lastOp'.args[1]
                  /\ \E i \in 1..Len(Chats) : selectedChat' = Chats[i]
           /\ ran("handleBackToList") =>
                  /\ showChatList' = TRUE
                  /\ selectedChat' = selectedChat
           /\ (~ran("handleSelectChat") /\ ~ran("handleBackToList")) =>
                  /\ showChatList' = showChatList
                  /\ selectedChat' = selectedChat
         ]_vars

\* C14 witness: after the second chat was selected, the back action ran: the
\* list is shown and the second chat is still the selected one.
C14_Witness ==
    /\ lastOp.op = "handleBackToList"
    /\ showChatList = TRUE
    /\ selectedChat.id = "2"

\* The object URLs of the attachments of the draft and of the local messages.
HeldObjectUrls ==
    {attachments[i].url : i \in 1..Len(attachments)}
    \cup UNION { {localMessages[i].attachments[1][k].url :
                      k \in 1..Len(localMessages[i].attachments[1])} :
                 i \in {j \in 1..Len(localMessages) :
                            localMessages[j].attachments # undefined} }

\* C15: every object URL that is not released belongs to an attachment of
\* the draft or of a sent message.
C15_ObjectUrlsReleased == liveObjectUrls \subseteq HeldObjectUrls

\* s is an initial part of t.
IsPrefix(s, t) == Len(s) <= Len(t) /\ SubSeq(t, 1, Len(s)) = s

\* C17: on every step the local message list before is an initial part of
\* the list after, so no sent message and no attachment recorded in one ever
\* changes; the list changes only when handleSendMessage runs on a draft
\* with non-blank text or an attachment, and then by one message at the end.
C17_LocalMessagesAppendOnly ==
    [][ /\ IsPrefix(localMessages, localMessages')
        /\ localMessages' # localMessages =>
               /\ ran("handleSendMessage")
               /\ ~Blank(message) \/ attachments # <<>>
               /\ Len(localMessages') = Len(localMessages) + 1
        /\ (ran("handleSendMessage") /\ (~Blank(message) \/ attachments # <<>>)) =>
               Len(localMessages') = Len(localMessages) + 1
        /\ ~ran("handleSendMessage") => localMessages' = localMessages
      ]_vars

\* C17 witness: a message was sent with one attachment; then a file was
\* attached to the next draft and removed again, and the sent message still
\* has its attachment.
C17_Witness ==
    /\ lastOp.op = "removeAttachment"
    /\ attachments = <<>>
    /\ objectUrls = 2
    /\ Len(localMessages) = 1
    /\ localMessages[1].attachments # undefined
    /\ Len(localMessages[1].attachments[1]) = 1
    /\ localMessages[1].attachments[1][1].id = lastOp.args[1]

\* C17 witness: two messages were sent, each with its own attachment; the
\* second send emptied the draft and left the first message as it was.
C17_WitnessCleared ==
    /\ lastOp.op = "handleSendMessage"
    /\ attachments = <<>>
    /\ Len(localMessages) = 2
    /\ localMessages[1].attachments # undefined
    /\ localMessages[2].attachments # undefined
    /\ localMessages[1].attachments[1][1].url = "blob:1"
    /\ localMessages[2].attachments[1][1].url = "blob:2"

\* C18: handleSelectChat and handleBackToList leave the draft text, the
\* draft attachments and the local messages as they are; and whichever chat
\* is selected, a send with something to send records the draft text and
\* the draft attachments as they are at that moment.
C18_NavigationKeepsDraft ==
    [][ /\ (ran("handleSelectChat") \/ ran("handleBackToList")) =>
               UNCHANGED <<message, attachments, localMessages>>
        /\ (ran("handleSendMessage") /\ (~Blank(message) \/ attachments # <<>>)) =>
               LET sent == localMessages'[Len(localMessages')]
               IN  /\ sent.text = message
                   /\ sent.attachments =
                          IF attachments = <<>> THEN undefined ELSE Some(attachments)
      ]_vars

\* C18 witness: the second chat was just selected while a draft of non-blank
\* text and one attachment was pending, and the draft is still there.
C18_Witness ==
    /\ lastOp.op = "handleSelectChat"
    /\ selectedChat.id = Chats[2].id
    /\ ~Blank(message)
    /\ Len(attachments) = 1
    /\ localMessages = <<>>

\* C18 witness: with the second chat selected, a send recorded a message of
\* non-blank text and one attachment.
C18_WitnessSent ==
    /\ lastOp.op = "handleSendMessage"
    /\ selectedChat.id = Chats[2].id
    /\ ~showChatList
    /\ Len(localMessages) = 1
    /\ ~Blank(localMessages[1].text)
    /\ localMessages[1].attachments # undefined

\* C19: removeAttachment(id) leaves in the draft exactly the attachments of
\* another id, in their order; if no attachment has that id the draft
\* attachments are as before; the draft text and the local messages are
\* unchanged.
C19_RemoveAttachment ==
    [][ran("removeAttachment") =>
        LET id == lastOp'.args[1]
        IN  /\ attachments' =
                   AtPositions(attachments,
                               {i \in 1..Len(attachments) : attachments[i].id # id})
            /\ \A i \in 1..Len(attachments') : attachments'[i].id # id
            /\ (\A i \in 1..Len(attachments) : attachments[i].id # id) =>
                   attachments' = attachments
            /\ UNCHANGED <<message, localMessages>>
      ]_vars

\* C19 witness: of two attachments of different ids the first was removed;
\* the second is left, and the draft text is not blank.
C19_Witness ==
    /\ lastOp.op = "removeAttachment"
    /\ objectUrls = 2
    /\ Len(attachments) = 1
    /\ attachments[1].url = "blob:2"
    /\ attachments[1].id # lastOp.args[1]
    /\ ~Blank(message)

\* C19 witness: removeAttachment ran with an id that no attachment of the
\* draft had, and the draft still has its two attachments.
C19_WitnessNoOp ==
    /\ lastOp.op = "removeAttachment"
    /\ lastOp.args[1] = StaleId
    /\ Len(attachments) = 2

\* C20: the messages shown together have pairwise different ids.
C20_MessageIdsDistinct ==
    \A i, j \in 1..Len(allMessages) :
        i # j => allMessages[i].id # allMessages[j].id

(***************************************************************************)
(* Properties of the pure helpers.                                         *)
(***************************************************************************)
\* label is the decimal numeral of q/den to one decimal, followed by unit:
\* some n tenths, no further from q/den than half a tenth.
OneDecimal(label, q, den, unit) ==
    \E n \in ((10 * q) \div den)..((10 * q) \div den + 1) :
        /\ label = ToString(n \div 10) \o "." \o ToString(n % 10) \o unit
        /\ 2 * (n * den - 10 * q) <= den
        /\ 2 * (10 * q - n * den) <= den

\* C3: for every file size of at most 10 MiB, formatFileSize yields the byte
\* count and " B" below 1024, the kibibytes to one decimal and " KB" from
\* 1024 up to 1048575, the mebibytes to one decimal and " MB" from 1048576.
C3_FormatFileSize ==
    (pureIn.fn = "formatFileSize" /\ pureOut # "pending") =>
        LET bytes == pureIn.bytes
        IN  /\ bytes < 1024 => pureOut = ToString(bytes) \o " B"
            /\ (1024 <= bytes /\ bytes < 1048576) => OneDecimal(pureOut, bytes, 1024, " KB")
            /\ bytes >= 1048576 => OneDecimal(pureOut, bytes, 1048576, " MB")
            /\ bytes = 5120 => pureOut = "5.0 KB"

\* C3 witness: formatFileSize was applied to 5120 bytes and yielded "5.0 KB".
C3_Witness ==
    /\ pureIn.fn = "formatFileSize"
    /\ pureIn.bytes = 5120
    /\ pureOut = "5.0 KB"

\* s begins with p
HasPrefix(s, p) == Len(s) >= Len(p) /\ SubSeq(s, 1, Len(p)) = p

\* p occurs in s
HasSubstring(s, p) ==
    \E i \in 0..(Len(s) - Len(p)) : SubSeq(s, i + 1, i + Len(p)) = p

LooksLikeDocument(type) ==
    \/ HasSubstring(type, <<"p", "d", "f">>)
    \/ HasSubstring(type, <<"d", "o", "c", "u", "m", "e", "n", "t">>)
    \/ HasSubstring(type, <<"t", "e", "x", "t">>)

\* C4: getFileType yields "image" for a type beginning with "image/",
\* "audio" for one beginning with "audio/", for any other type "document"
\* if it contains "pdf", "document" or "text", and "other" if it does not.
C4_GetFileType ==
    (pureIn.fn = "getFileType" /\ pureOut # "pending") =>
        LET type == pureIn.type
            image == HasPrefix(type, <<"i", "m", "a", "g", "e", "/">>)
            audio == HasPrefix(type, <<"a", "u", "d", "i", "o", "/">>)
        IN  /\ image => pureOut = "image"
            /\ audio => pureOut = "audio"
            /\ (~image /\ ~audio /\ LooksLikeDocument(type)) => pureOut = "document"
            /\ (~image /\ ~audio /\ ~LooksLikeDocument(type)) => pureOut = "other"

\* C4 witness: getFileType was applied to a type that begins with "image/"
\* and contains "pdf", and called it an image.
C4_Witness ==
    /\ pureIn.fn = "getFileType"
    /\ HasPrefix(pureIn.type, <<"i", "m", "a", "g", "e", "/">>)
    /\ LooksLikeDocument(pureIn.type)
    /\ pureOut = "image"

(***************************************************************************)
(* Properties of the Products screen.                                      *)
(***************************************************************************)
\* after is before with exactly the records of the given id taken out: the
\* records of any other id are all there, as they were and in their order.
RemovedExactly(before, after, id) ==
    LET kept == {i \in 1..Len(before) : before[i].id # id}
    IN  /\ Len(after) = Cardinality(kept)
        /\ \A i \in kept : after[Cardinality({j \in kept : j <= i})] = before[i]

\* C8: a confirmed handleDelete(id), and a call of deleteProduct(id) by any
\* consumer, takes exactly the product of that id out of the collection;
\* if no product has the id the collection stays as it is.
C8_DeleteRemovesExactlyOne ==
    [][ /\ (ran("handleDelete") /\ lastOp'.args[3]) =>
               /\ RemovedExactly(products, products', lastOp'.args[1])
               /\ Len(products') = Len(products) - 1
        /\ ran("deleteProduct") =>
               /\ RemovedExactly(products, products', lastOp'.args[1])
               /\ (\A i \in 1..Len(products) : products[i].id # lastOp'.args[1])
                      => products' = products
      ]_vars

\* C8 witness: while the search showed only some products, the second row
\* shown was deleted: the collection lacks product "4" and still holds "1",
\* "2" and "3" in this order.
C8_Witness ==
    /\ lastOp.op = "handleDelete"
    /\ lastOp.args[3]
    /\ lastOp.args[1] = "4"
    /\ productSearchTerm # <<>>
    /\ [i \in 1..Len(products) |-> products[i].id] = <<"1", "2", "3">>

\* The calls of deleteProduct among the effects of a handler.
DeleteCalls(effs) == SelectSeq(effs, LAMBDA e : e.kind = "deleteProduct")

\* C9: handleDelete with the confirmation declined leaves the collection as
\* it is, calls nothing and shows nothing; with the confirmation accepted it
\* calls deleteProduct once, with the id of the product, and then shows one
\* success notification.
C9_DeleteNeedsConfirmation ==
    [][ran("handleDelete") =>
        LET id == lastOp'.args[1]
            ok == lastOp'.args[3]
            n == Len(effects')
        IN  /\ ~ok => /\ products' = products
                      /\ DeleteCalls(effects') = <<>>
                      /\ Notifications(effects') = <<>>
            /\ ok => /\ DeleteCalls(effects') = << [kind |-> "deleteProduct", arg |-> id] >>
                     /\ Notifications(effects') = <<toastSuccess("Product deleted successfully")>>
                     /\ effects'[n - 1].kind = "deleteProduct"
                     /\ effects'[n].kind = "toast.success"
            /\ effects'[1].kind = "window.confirm"
      ]_vars

\* C9 witness: the confirmation was declined; the four products are all
\* there and only the prompt was shown.
C9_Witness ==
    /\ lastOp.op = "handleDelete"
    /\ ~lastOp.args[3]
    /\ products = InitialProducts
    /\ Len(effects) = 1

\* C9 witness of the other case: the confirmation was accepted and the
\* product is gone.
C9_WitnessAccepted ==
    /\ lastOp.op = "handleDelete"
    /\ lastOp.args[3]
    /\ \A i \in 1..Len(products) : products[i].id # lastOp.args[1]
    /\ Len(effects) = 3

\* The product is to be shown under the search term and the category filter.
Shown(product) ==
    /\ \/ HasSubstring(toLowerCase(product.name), toLowerCase(productSearchTerm))
       \/ HasSubstring(toLowerCase(product.partNumber), toLowerCase(productSearchTerm))
       \/ HasSubstring(toLowerCase(product.model), toLowerCase(productSearchTerm))
    /\ (categoryFilter = "all" \/ product.category = categoryFilter)

\* C10: the list shown is the products to be shown, in the order of the
\* collection; with no search term and the filter "all" it is the collection.
C10_FilteredProducts ==
    /\ filteredProducts = AtPositions(products, {i \in 1..Len(products) : Shown(products[i])})
    /\ (productSearchTerm = <<>> /\ categoryFilter = "all") => filteredProducts = products

\* C10 witness: the search term "brake" with the filter "all" shows the
\* product named "Brake Pad" and the one of model "Brake-assist i20", and
\* not the two others.
C10_Witness ==
    /\ productSearchTerm = <<"b", "r", "a", "k", "e">>
    /\ categoryFilter = "all"
    /\ products = InitialProducts
    /\ [i \in 1..Len(filteredProducts) |-> filteredProducts[i].id] = <<"1", "4">>

\* The style a badge is drawn in.
BadgeStyle(badge) ==
    CASE badge.className = "bg-success text-success-foreground" /\ badge.variant = "default" -> "success"
      [] badge.className = "bg-warning text-warning-foreground" /\ badge.variant = "default" -> "warning"
      [] badge.className = "" /\ badge.variant = "destructive" -> "destructive"
      [] badge.className = "" /\ badge.variant = "secondary" -> "neutral"
      [] OTHER -> "unstyled"

\* C16: every row has a status badge; it shows the row's status text, in the
\* success style for "In Stock", the warning style for "Low Stock", the
\* destructive style for "Out of Stock" and the neutral style for any other
\* status; rows of equal status have equal badges whatever their stock.
C16_StatusBadge ==
    /\ Len(statusBadges) = Len(filteredProducts)
    /\ \A i \in 1..Len(filteredProducts) :
           LET status == filteredProducts[i].status
               badge == statusBadges[i]
           IN  /\ badge.text = status
               /\ status = "In Stock" => BadgeStyle(badge) = "success"
               /\ status = "Low Stock" => BadgeStyle(badge) = "warning"
               /\ status = "Out of Stock" => BadgeStyle(badge) = "destructive"
               /\ status \notin {"In Stock", "Low Stock", "Out of Stock"} =>
                      BadgeStyle(badge) = "neutral"
               /\ \A j \in 1..Len(filteredProducts) :
                      filteredProducts[j].status = status => statusBadges[j] = badge

\* C16 witness: a row of status "In Stock" with no stock has the success
\* badge, next to a row of status "Discontinued" with the neutral badge
\* reading "Discontinued".
C16_Witness ==
    /\ Len(filteredProducts) = 2
    /\ filteredProducts[1].status = "In Stock"
    /\ filteredProducts[1].stock = 0
    /\ BadgeStyle(statusBadges[1]) = "success"
    /\ filteredProducts[2].status = "Discontinued"
    /\ filteredProducts[2].stock = 4
    /\ statusBadges[2] = [variant |-> "secondary", className |-> "", text |-> "Discontinued"]

(***************************************************************************)
(* Properties of the add-product dialog.                                   *)
(***************************************************************************)
\* C11: handleAddProduct, if every image URL is blank, shows one error
\* notification and leaves the image URLs as they are; otherwise it shows one
\* success notification and resets the image URLs to one empty entry; in
\* both cases the product collection is unchanged.
C11_AddProductValidatesImages ==
    [][ran("handleAddProduct") =>
        LET allBlank == \A i \in 1..Len(imageUrls) : Blank(imageUrls[i])
        IN  /\ allBlank =>
                   /\ Len(effects') = 1
                   /\ effects'[1].kind = "toast.error"
                   /\ imageUrls' = imageUrls
            /\ ~allBlank =>
                   /\ Len(effects') = 1
                   /\ effects'[1].kind = "toast.success"
                   /\ imageUrls' = << <<>> >>
            /\ products' = products
      ]_vars

\* C11 witness: handleAddProduct ran on two entries, one empty and one of
\* white space; the error was shown and the entries are as they were.
C11_Witness ==
    /\ lastOp.op = "handleAddProduct"
    /\ imageUrls = << <<>>, <<" ">> >>
    /\ effects = <<toastError("Please add at least one product image")>>
    /\ products = InitialProducts

\* C11 witness of the other case: handleAddProduct ran with a URL entered;
\* the success was shown and the list is one empty entry.
C11_WitnessAccepted ==
    /\ lastOp.op = "handleAddProduct"
    /\ imageUrls = << <<>> >>
    /\ effects = <<toastSuccess("Product added successfully")>>
    /\ products = InitialProducts

\* C12: the image URL list has at least 1 and at most 10 entries at all
\* times; addImageUrl at 10 entries and removeImageUrl at 1 entry change
\* nothing.
C12_ImageUrlsBetween1And10 ==
    /\ Len(imageUrls) \in 1..10
    /\ [][ /\ Len(imageUrls') \in 1..10
           /\ (ran("addImageUrl") /\ Len(imageUrls) = 10) => imageUrls' = imageUrls
           /\ (ran("addImageUrl") /\ Len(imageUrls) < 10) =>
                  Len(imageUrls') = Len(imageUrls) + 1
           /\ (ran("removeImageUrl") /\ Len(imageUrls) = 1) => imageUrls' = imageUrls
           /\ (ran("removeImageUrl") /\ Len(imageUrls) > 1) =>
                  Len(imageUrls') = Len(imageUrls) - 1
           /\ ran("updateImageUrl") => Len(imageUrls') = Len(imageUrls)
         ]_vars

\* C12 witness: addImageUrl ran at ten entries that all hold a URL; had it
\* added an entry, the last one would be empty.
C12_Witness ==
    /\ lastOp.op = "addImageUrl"
    /\ Len(imageUrls) = 10
    /\ \A i \in 1..10 : imageUrls[i] = <<"u">>

\* C12 witness of the other end: removeImageUrl ran at the one entry.
C12_WitnessAtOne ==
    /\ lastOp.op = "removeImageUrl"
    /\ imageUrls = << <<"u">> >>

====
